---- MODULE Spec2Model ----
(***************************************************************************)
(* URL shortener: the in-memory shortcode registry of                      *)
(* BackendTestSubmission/services/urlService.js and the creation handler   *)
(* that drives it.                                                         *)
(*                                                                         *)
(* urlStorage is a JavaScript Map.  A Map keeps its entries in insertion   *)
(* order, so it is modelled as a sequence of [key, value] pairs; has, get, *)
(* set and delete are the operators MapHas, MapGet, MapSet and MapDelete.  *)
(* Every exported function of urlService.js is synchronous, so each call   *)
(* is one atomic action (Node.js runs a synchronous function to            *)
(* completion before any other handler runs).                              *)
(*                                                                         *)
(* Time is counted in minutes: `now` is the reading of the clock           *)
(* (new Date()), and an entry's expiresAt is createdAt + validity.         *)
(***************************************************************************)
EXTENDS Integers, Sequences, FiniteSets, TLC

VARIABLES urlStorage, now, lastCall, appended, pc, req, status, vcall,
          urlEntries, results, loading, errors, snackbar, batch,
          gen, hits, response, searchHistory, statistics, pending, searches

vars == <<urlStorage, now, lastCall, appended, pc, req, status, vcall,
          urlEntries, results, loading, errors, snackbar, batch,
          gen, hits, response, searchHistory, statistics, pending, searches>>

(***************************************************************************)
(* Bounds of the model.                                                    *)
(***************************************************************************)
MaxTime == 2
Validities == {1, 2}
MaxClicks == 2

Codes == {"abcd", "Ab3dEf"}
NanoidCodes == {"Ab3dEf", "health", "a_B-c9"}
Urls == {"https://example.com/a", "https://example.com/b"}
ClickData == {"k1", "k2"}
Procs == {"p1", "p2"}

AllCodes == Codes \cup NanoidCodes

\* The shortcodes callers ask about: the ones that get stored and one that
\* never is.
ReadCodes == Codes \cup {"health"}

\* nanoid(6); the lengths validateShortcode accepts.
ShortcodeLength == 6
MinShortcodeLength == 4
MaxShortcodeLength == 10

\* The draws of nanoid(6) that one call of generateShortcode may consume.
MaxDraws == 2

(***************************************************************************)
(* Characters and strings.  A string whose characters matter is a sequence *)
(* of one-character strings; Chars gives the characters of a shortcode.    *)
(***************************************************************************)
LowerSeq == <<"a", "b", "c", "d", "e", "f", "g", "h", "i", "j", "k", "l", "m",
              "n", "o", "p", "q", "r", "s", "t", "u", "v", "w", "x", "y", "z">>

UpperSeq == <<"A", "B", "C", "D", "E", "F", "G", "H", "I", "J", "K", "L", "M",
              "N", "O", "P", "Q", "R", "S", "T", "U", "V", "W", "X", "Y", "Z">>

DigitSeq == <<"0", "1", "2", "3", "4", "5", "6", "7", "8", "9">>

Range(q) == {q[i] : i \in 1..Len(q)}

\* [a-zA-Z0-9]
IsAlnumChar(ch) == ch \in Range(LowerSeq) \cup Range(UpperSeq) \cup Range(DigitSeq)

Chars(code) ==
    CASE code = "abcd" -> <<"a", "b", "c", "d">>
      [] code = "Ab3dEf" -> <<"A", "b", "3", "d", "E", "f">>
      [] code = "health" -> <<"h", "e", "a", "l", "t", "h">>
      [] code = "a_B-c9" -> <<"a", "_", "B", "-", "c", "9">>
      [] OTHER -> <<>>

(***************************************************************************)
(* JavaScript values returned by the registry functions.                   *)
(***************************************************************************)
Undefined == [kind |-> "undefined"]
NullVal == [kind |-> "null"]
EntryVal(e) == [kind |-> "entry", value |-> e]
NumberVal(n) == [kind |-> "number", value |-> n]
BooleanVal(b) == [kind |-> "boolean", value |-> b]
StringVal(s) == [kind |-> "string", value |-> s]
ArrayVal(a) == [kind |-> "array", value |-> a]

(***************************************************************************)
(* Map operations on a sequence of [key, value] pairs.                     *)
(***************************************************************************)
MapKeys(m) == {m[i].key : i \in 1..Len(m)}

MapHas(m, k) == \E i \in 1..Len(m) : m[i].key = k

MapIndex(m, k) == CHOOSE i \in 1..Len(m) : m[i].key = k

MapGet(m, k) == IF MapHas(m, k) THEN EntryVal(m[MapIndex(m, k)].value) ELSE Undefined

MapSetAppend(m, k, v) == Append(m, [key |-> k, value |-> v])

MapSet(m, k, v) ==
    IF MapHas(m, k)
    THEN [m EXCEPT ![MapIndex(m, k)] = [key |-> k, value |-> v]]
    ELSE Append(m, [key |-> k, value |-> v])

MapDelete(m, k) == SelectSeq(m, LAMBDA kv : kv.key # k)

MapValues(m) == [i \in 1..Len(m) |-> m[i].value]

(***************************************************************************)
(* The UrlEntry a creation builds: createdAt is the clock reading,         *)
(* expiresAt = createdAt + validity, and clicks starts empty.              *)
(***************************************************************************)
NewEntry(code, url, validity, t) ==
    [shortcode |-> code, originalUrl |-> url, createdAt |-> t,
     expiresAt |-> t + validity, clicks |-> <<>>]

NoCall == [op |-> "none", code |-> "", ret |-> Undefined]

Call(op, code, ret) == [op |-> op, code |-> code, ret |-> ret]

NoRequest == [shortcode |-> "", url |-> "", validity |-> 0]

NoValidation == [fn |-> "none", input |-> Undefined, result |-> Undefined]

\* The UrlShortener page as it is mounted: one empty entry, no results, no
\* errors, a closed snackbar and no batch on its way to the server.
EmptyEntry == [url |-> "", validity |-> "", shortcode |-> ""]

NoSnackbar == [open |-> FALSE, message |-> "", severity |-> "info"]

NoBatch == [validEntries |-> <<>>, apiResults |-> <<>>]

\* No call of generateShortcode is running.
NoGeneration == [pc |-> "idle", shortcode |-> ""]

\* The addresses requests come from.
Ips == {"ip1"}

\* The rate limiter's store has counted no request of the client yet.
NoHits == [totalHits |-> 0, resetTime |-> 0]

\* No request has gone through the rate limiter yet.
NoResponse == [ip |-> "", status |-> 0]

\* The Statistics page before it reads the saved history.
InitStatistics ==
    /\ searchHistory = <<>>
    /\ statistics = NullVal
    /\ pending = {}
    /\ searches = 0

InitLimiter ==
    /\ hits = [ip \in Ips |-> NoHits]
    /\ response = NoResponse

InitExtras ==
    /\ gen = NoGeneration
    /\ InitLimiter
    /\ InitStatistics

InitForm ==
    /\ urlEntries = <<EmptyEntry>>
    /\ results = <<>>
    /\ loading = FALSE
    /\ errors = <<>>
    /\ snackbar = NoSnackbar
    /\ batch = NoBatch

Init ==
    /\ urlStorage = <<>>
    /\ now = 0
    /\ lastCall = NoCall
    /\ appended = [c \in AllCodes |-> 0]
    /\ pc = [p \in Procs |-> "idle"]
    /\ req = [p \in Procs |-> NoRequest]
    /\ status = [p \in Procs |-> 0]
    /\ vcall = NoValidation
    /\ InitForm
    /\ InitExtras

(***************************************************************************)
(* urlService.js                                                           *)
(***************************************************************************)

storeUrlEvicting(m, urlEntry) ==
    MapSet(IF Len(m) >= 1 /\ ~MapHas(m, urlEntry.shortcode) THEN Tail(m) ELSE m,
           urlEntry.shortcode, urlEntry)

\* storeUrl(urlEntry): urlStorage.set(urlEntry.shortcode, urlEntry)
storeUrl(m, urlEntry) == MapSet(m, urlEntry.shortcode, urlEntry)

\* getUrl(shortcode): urlStorage.get(shortcode)
getUrl(m, shortcode) == MapGet(m, shortcode)

\* The do-while of generateShortcode has not ended within the draws given.
StillLooping == [kind |-> "looping"]

generateShortcodeNoRetry(m, draws) ==
    IF draws = <<>> THEN StillLooping ELSE StringVal(Head(draws))

\* generateShortcode(): draws are the successive results of nanoid(6); the
\* loop returns the first draw that is not a key of the storage.
RECURSIVE generateShortcode(_, _)
generateShortcode(m, draws) ==
    IF draws = <<>> THEN StillLooping
    ELSE IF MapHas(m, Head(draws)) THEN generateShortcode(m, Tail(draws))
    ELSE StringVal(Head(draws))

\* The sequences of at most MaxDraws draws of nanoid(6).
Draws == UNION {[1..n -> NanoidCodes] : n \in 1..MaxDraws}

shortcodeExistsLive(m, shortcode) ==
    MapHas(m, shortcode) /\ MapGet(m, shortcode).value.expiresAt >= now

\* shortcodeExists(shortcode): urlStorage.has(shortcode)
shortcodeExists(m, shortcode) == MapHas(m, shortcode)

\* getAllUrls(): Array.from(urlStorage.values())
getAllUrls(m) == MapValues(m)

recordClickUpsert(m, shortcode, clickData) ==
    IF getUrl(m, shortcode).kind = "entry"
    THEN MapSet(m, shortcode,
                [getUrl(m, shortcode).value EXCEPT !.clicks = Append(@, clickData)])
    ELSE MapSet(m, shortcode,
                [shortcode |-> shortcode, originalUrl |-> "", createdAt |-> 0,
                 expiresAt |-> 0, clicks |-> <<clickData>>])

recordClickPrepend(m, shortcode, clickData) ==
    IF getUrl(m, shortcode).kind = "entry"
    THEN MapSet(m, shortcode,
                [getUrl(m, shortcode).value EXCEPT !.clicks = <<clickData>> \o @])
    ELSE m

recordClickOverwrite(m, shortcode, clickData) ==
    IF getUrl(m, shortcode).kind = "entry"
    THEN MapSet(m, shortcode,
                [getUrl(m, shortcode).value EXCEPT !.clicks = <<clickData>>])
    ELSE m

\* recordClick(shortcode, clickData): push onto the stored entry's clicks
\* and set the entry again; nothing when the shortcode is not stored.
recordClick(m, shortcode, clickData) ==
    IF getUrl(m, shortcode).kind = "entry"
    THEN MapSet(m, shortcode,
                [getUrl(m, shortcode).value EXCEPT !.clicks = Append(@, clickData)])
    ELSE m

expiredShortcodesInclusive(m, t) ==
    LET expired == SelectSeq(m, LAMBDA kv : kv.value.expiresAt <= t)
    IN  [i \in 1..Len(expired) |-> expired[i].key]

\* The shortcodes cleanupExpiredUrls collects, in the Map's iteration order.
expiredShortcodes(m, t) ==
    LET expired == SelectSeq(m, LAMBDA kv : kv.value.expiresAt < t)
    IN  [i \in 1..Len(expired) |-> expired[i].key]

RECURSIVE DeleteAll(_, _)
DeleteAll(m, ks) ==
    IF ks = <<>> THEN m ELSE DeleteAll(MapDelete(m, Head(ks)), Tail(ks))

cleanupFirstExpired(m, t) ==
    IF expiredShortcodes(m, t) = <<>> THEN m
    ELSE MapDelete(m, Head(expiredShortcodes(m, t)))

\* cleanupExpiredUrls(): the storage after the sweep at time t.
cleanupExpiredUrls(m, t) == DeleteAll(m, expiredShortcodes(m, t))

RECURSIVE SumOver(_, _)
SumOver(f, S) ==
    IF S = {} THEN 0
    ELSE LET x == CHOOSE y \in S : TRUE IN f[x] + SumOver(f, S \ {x})

\* The recordClick calls counted so far on the entries now stored.
TotalAppended == SumOver(appended, AllCodes)

HandlersIdle == UNCHANGED <<pc, req, status>>

\* The page's state is left alone.
FormIdle == UNCHANGED <<urlEntries, results, loading, errors, snackbar, batch>>

LoopIdle == UNCHANGED gen

LimiterIdle == UNCHANGED <<hits, response>>

StatisticsIdle == UNCHANGED <<searchHistory, statistics, pending, searches>>

ExtrasIdle == LoopIdle /\ LimiterIdle /\ StatisticsIdle

RestIdle == UNCHANGED vcall /\ FormIdle /\ ExtrasIdle

StoreUrlOf(c, u, v) ==
    /\ urlStorage' = storeUrl(urlStorage, NewEntry(c, u, v, now))
    /\ lastCall' = Call("storeUrl", c, Undefined)
    /\ appended' = [appended EXCEPT ![c] = 0]
    /\ UNCHANGED now
    /\ HandlersIdle
    /\ RestIdle

StoreUrl == \E c \in Codes, u \in Urls, v \in Validities : StoreUrlOf(c, u, v)

GetUrlOf(c) ==
    /\ lastCall' = Call("getUrl", c, getUrl(urlStorage, c))
    /\ UNCHANGED <<urlStorage, now, appended>>
    /\ HandlersIdle
    /\ RestIdle

GetUrl == \E c \in ReadCodes : GetUrlOf(c)

ShortcodeExists ==
    \E c \in ReadCodes :
        /\ lastCall' = Call("shortcodeExists", c, BooleanVal(shortcodeExists(urlStorage, c)))
        /\ UNCHANGED <<urlStorage, now, appended>>
        /\ HandlersIdle
        /\ RestIdle

RecordClickOf(c, k) ==
    /\ TotalAppended < MaxClicks
    /\ urlStorage' = recordClick(urlStorage, c, k)
    /\ lastCall' = Call("recordClick", c, Undefined)
    /\ appended' = [appended EXCEPT ![c] = IF MapHas(urlStorage, c) THEN @ + 1 ELSE @]
    /\ UNCHANGED now
    /\ HandlersIdle
    /\ RestIdle

RecordClick == \E c \in ReadCodes, k \in ClickData : RecordClickOf(c, k)

GetAllUrls ==
    /\ lastCall' = Call("getAllUrls", "", ArrayVal(getAllUrls(urlStorage)))
    /\ UNCHANGED <<urlStorage, now, appended>>
    /\ HandlersIdle
    /\ RestIdle

CleanupExpiredUrls ==
    /\ urlStorage' = cleanupExpiredUrls(urlStorage, now)
    /\ lastCall' = Call("cleanupExpiredUrls", "",
                        NumberVal(Len(expiredShortcodes(urlStorage, now))))
    /\ appended' = [c \in AllCodes |->
                       IF MapHas(urlStorage', c) THEN appended[c] ELSE 0]
    /\ UNCHANGED now
    /\ HandlersIdle
    /\ RestIdle

\* generateShortcode(): draw nanoid(6) until the draw is not a stored key.
GenerateShortcode ==
    \E c \in NanoidCodes :
        /\ generateShortcode(urlStorage, <<c>>) = StringVal(c)
        /\ lastCall' = Call("generateShortcode", c, StringVal(c))
        /\ UNCHANGED <<urlStorage, now, appended>>
        /\ HandlersIdle
        /\ RestIdle

\* The clock advances.
Tick ==
    /\ now < MaxTime
    /\ now' = now + 1
    /\ UNCHANGED <<urlStorage, lastCall, appended>>
    /\ HandlersIdle
    /\ RestIdle

(***************************************************************************)
(* The creation handler (POST /shorturls -> urlController.createShortUrl)  *)
(* for a request that names a custom shortcode: it probes the registry     *)
(* with shortcodeExists, answers 409 when the shortcode is taken, and      *)
(* otherwise builds the entry and calls storeUrl, answering 201.  Request  *)
(* handlers interleave at the granularity of registry calls.               *)
(***************************************************************************)
CreateCheck(p) ==
    \E c \in Codes, u \in Urls, v \in Validities :
        /\ pc[p] = "idle"
        /\ req' = [req EXCEPT ![p] = [shortcode |-> c, url |-> u, validity |-> v]]
        /\ lastCall' = Call("shortcodeExists", c, BooleanVal(shortcodeExists(urlStorage, c)))
        /\ IF shortcodeExists(urlStorage, c)
           THEN /\ status' = [status EXCEPT ![p] = 409]
                /\ pc' = [pc EXCEPT ![p] = "done"]
           ELSE /\ status' = [status EXCEPT ![p] = 0]
                /\ pc' = [pc EXCEPT ![p] = "store"]
        /\ UNCHANGED <<urlStorage, now, appended>>
        /\ RestIdle

CreateStore(p) ==
    /\ pc[p] = "store"
    /\ urlStorage' = storeUrl(urlStorage,
                              NewEntry(req[p].shortcode, req[p].url, req[p].validity, now))
    /\ lastCall' = Call("storeUrl", req[p].shortcode, Undefined)
    /\ appended' = [appended EXCEPT ![req[p].shortcode] = 0]
    /\ status' = [status EXCEPT ![p] = 201]
    /\ pc' = [pc EXCEPT ![p] = "done"]
    /\ UNCHANGED <<now, req>>
    /\ RestIdle

\* The response has been sent; the handler is free for the next request.
CreateDone(p) ==
    /\ pc[p] = "done"
    /\ pc' = [pc EXCEPT ![p] = "idle"]
    /\ req' = [req EXCEPT ![p] = NoRequest]
    /\ status' = [status EXCEPT ![p] = 0]
    /\ UNCHANGED <<urlStorage, now, lastCall, appended>>
    /\ RestIdle

(***************************************************************************)
(* The creation handler for a request without a shortcode: it takes the    *)
(* shortcode from generateShortcode and then stores the entry (CreateStore *)
(* and CreateDone as above).                                               *)
(***************************************************************************)
AutoGenerate(p) ==
    \E u \in Urls, v \in Validities, draws \in Draws :
        LET r == generateShortcode(urlStorage, draws)
        IN  /\ pc[p] = "idle"
            /\ r.kind = "string"
            /\ req' = [req EXCEPT ![p] = [shortcode |-> r.value, url |-> u, validity |-> v]]
            /\ lastCall' = Call("generateShortcode", r.value, r)
            /\ status' = [status EXCEPT ![p] = 0]
            /\ pc' = [pc EXCEPT ![p] = "store"]
            /\ UNCHANGED <<urlStorage, now, appended>>
            /\ RestIdle

Next ==
    \/ StoreUrl
    \/ GetUrl
    \/ ShortcodeExists
    \/ RecordClick
    \/ GetAllUrls
    \/ CleanupExpiredUrls
    \/ GenerateShortcode
    \/ Tick

Spec == Init /\ [][Next]_vars

NextCreate ==
    \/ \E p \in Procs : CreateCheck(p)
    \/ \E p \in Procs : CreateStore(p)
    \/ \E p \in Procs : CreateDone(p)
    \/ CleanupExpiredUrls
    \/ Tick

SpecCreate == Init /\ [][NextCreate]_vars

NextAuto ==
    \/ \E p \in Procs : AutoGenerate(p)
    \/ \E p \in Procs : CreateStore(p)
    \/ \E p \in Procs : CreateDone(p)

SpecAuto == Init /\ [][NextAuto]_vars

(***************************************************************************)
(* generateShortcode, one turn of its do-while at a time.  gen.pc is       *)
(* "loop" while the call is inside the loop with a draw that is a stored   *)
(* key, and "returned" when it has returned gen.shortcode.  The call is    *)
(* synchronous: nothing else runs while it loops.                          *)
(***************************************************************************)
\* shortcode = nanoid(6); while (urlStorage.has(shortcode))
LoopTurn(c) ==
    /\ gen' = [pc |-> IF shortcodeExists(urlStorage, c) THEN "loop" ELSE "returned",
               shortcode |-> c]
    /\ lastCall' = IF shortcodeExists(urlStorage, c) THEN lastCall
                   ELSE Call("generateShortcode", c, StringVal(c))
    /\ UNCHANGED <<urlStorage, now, appended>>
    /\ HandlersIdle
    /\ UNCHANGED vcall
    /\ FormIdle
    /\ LimiterIdle
    /\ StatisticsIdle

\* The call is made and the loop body runs for the first time.
GenerateEnter ==
    /\ gen.pc = "idle"
    /\ \E c \in NanoidCodes : LoopTurn(c)

\* The loop body runs again.
GenerateRepeat ==
    /\ gen.pc = "loop"
    /\ \E c \in NanoidCodes : LoopTurn(c)

\* The creation handler stores the entry under the shortcode returned.
StoreGenerated ==
    /\ gen.pc = "returned"
    /\ \E u \in Urls, v \in Validities :
          urlStorage' = storeUrl(urlStorage, NewEntry(gen.shortcode, u, v, now))
    /\ lastCall' = Call("storeUrl", gen.shortcode, Undefined)
    /\ appended' = [appended EXCEPT ![gen.shortcode] = 0]
    /\ gen' = NoGeneration
    /\ UNCHANGED now
    /\ HandlersIdle
    /\ UNCHANGED vcall
    /\ FormIdle
    /\ LimiterIdle
    /\ StatisticsIdle

NextLoop ==
    \/ GenerateEnter
    \/ GenerateRepeat
    \/ StoreGenerated

SpecLoop == Init /\ [][NextLoop]_vars

\* The loop is running code: while its condition holds, the body runs again.
SpecLoopFair == SpecLoop /\ WF_vars(GenerateRepeat)

(***************************************************************************)
(* validationService.js.  The validators take any JavaScript value, as a   *)
(* JSON request body can hold one.  A string is StringVal of its sequence  *)
(* of characters, NumberVal(n) is the integer n, FractionVal(n) the number *)
(* n + 1/2, and a call ends either with a result object or by throwing.    *)
(***************************************************************************)
FractionVal(n) == [kind |-> "fraction", value |-> n]
ObjectVal == [kind |-> "object"]

Thrown(e) == [kind |-> "throw", error |-> e]

\* { isValid, error } with the extra field (normalizedUrl or value), if any.
Result(isValid, error, value) ==
    [kind |-> "result", isValid |-> isValid, error |-> error, value |-> value]

\* !x
Falsy(x) ==
    \/ x.kind \in {"undefined", "null"}
    \/ x.kind = "number" /\ x.value = 0
    \/ x.kind = "boolean" /\ ~x.value
    \/ x.kind = "string" /\ x.value = <<>>

\* x.length is a number for strings and arrays, undefined otherwise.
HasLength(x) == x.kind \in {"string", "array"}

RECURSIVE DigitChars(_)
DigitChars(n) ==
    IF n < 10 THEN <<DigitSeq[n + 1]>>
    ELSE DigitChars(n \div 10) \o <<DigitSeq[(n % 10) + 1]>>

IntChars(n) == IF n < 0 THEN <<"-">> \o DigitChars(0 - n) ELSE DigitChars(n)

RECURSIVE JoinChars(_)
\* String(x): the characters a value is converted to by RegExp.test.
ToChars(x) ==
    CASE x.kind = "string" -> x.value
      [] x.kind = "number" -> IntChars(x.value)
      [] x.kind = "fraction" -> IntChars(x.value) \o <<".", "5">>
      [] x.kind = "boolean" ->
            IF x.value THEN <<"t", "r", "u", "e">> ELSE <<"f", "a", "l", "s", "e">>
      [] x.kind = "object" ->
            <<"[", "o", "b", "j", "e", "c", "t", " ", "O", "b", "j", "e", "c", "t", "]">>
      [] x.kind = "array" -> JoinChars(x.value)
      [] x.kind = "null" -> <<"n", "u", "l", "l">>
      [] OTHER -> <<"u", "n", "d", "e", "f", "i", "n", "e", "d">>

JoinChars(a) ==
    IF a = <<>> THEN <<>>
    ELSE IF Len(a) = 1 THEN ToChars(a[1])
    ELSE ToChars(a[1]) \o <<",">> \o JoinChars(Tail(a))

ToLowerChar(ch) ==
    IF \E i \in 1..Len(UpperSeq) : UpperSeq[i] = ch
    THEN LowerSeq[CHOOSE i \in 1..Len(UpperSeq) : UpperSeq[i] = ch]
    ELSE ch

\* s.toLowerCase()
ToLowerCase(cs) == [i \in 1..Len(cs) |-> ToLowerChar(cs[i])]

\* /^[a-zA-Z0-9]+$/.test(x)
alphanumericRegex(cs) == cs # <<>> /\ \A i \in 1..Len(cs) : IsAlnumChar(cs[i])

reservedWords ==
    { <<"a", "p", "i">>,
      <<"a", "d", "m", "i", "n">>,
      <<"w", "w", "w">>,
      <<"s", "h", "o", "r", "t", "u", "r", "l", "s">>,
      <<"h", "e", "a", "l", "t", "h">>,
      <<"s", "t", "a", "t", "s">> }

IsReservedExact(cs) == cs \in reservedWords

\* reservedWords.includes(shortcode.toLowerCase())
IsReserved(cs) == ToLowerCase(cs) \in reservedWords

validateShortcode(shortcode) ==
    IF Falsy(shortcode)
    THEN Result(FALSE, "Shortcode cannot be empty", Undefined)
    ELSE IF HasLength(shortcode)
            /\ (Len(shortcode.value) < MinShortcodeLength
                \/ Len(shortcode.value) > MaxShortcodeLength)
    THEN Result(FALSE, "Shortcode must be between 4 and 10 characters long", Undefined)
    ELSE IF ~alphanumericRegex(ToChars(shortcode))
    THEN Result(FALSE, "Shortcode can only contain alphanumeric characters (a-z, A-Z, 0-9)",
                Undefined)
    ELSE IF shortcode.kind # "string"
    THEN Thrown("TypeError: shortcode.toLowerCase is not a function")
    ELSE IF IsReserved(shortcode.value)
    THEN Result(FALSE, "Shortcode uses a reserved word. Please choose a different shortcode.",
                Undefined)
    ELSE Result(TRUE, "null", Undefined)

DefaultValidity == 30
MinValidity == 1
MaxValidityMinutes == 43200

ValidityTooLargeOffByOne(n) == n >= MaxValidityMinutes

ValidityTooLarge(n) == n > MaxValidityMinutes

validateValidity(validity) ==
    IF validity.kind \in {"undefined", "null"}
    THEN Result(TRUE, "null", NumberVal(DefaultValidity))
    ELSE IF validity.kind # "number"
    THEN Result(FALSE, "Validity must be an integer", Undefined)
    ELSE IF validity.value < MinValidity \/ ValidityTooLarge(validity.value)
    THEN Result(FALSE, "Validity must be between 1 and 43200 minutes (30 days)", Undefined)
    ELSE Result(TRUE, "null", validity)

\* The characters String.prototype.trim removes.
IsWhitespace(ch) == ch \in {" ", "\t", "\n", "\r"}

RECURSIVE TrimStart(_)
TrimStart(cs) ==
    IF cs # <<>> /\ IsWhitespace(Head(cs)) THEN TrimStart(Tail(cs)) ELSE cs

RECURSIVE TrimEnd(_)
TrimEnd(cs) ==
    IF cs # <<>> /\ IsWhitespace(cs[Len(cs)])
    THEN TrimEnd(SubSeq(cs, 1, Len(cs) - 1))
    ELSE cs

\* url.trim()
Trim(cs) == TrimEnd(TrimStart(cs))

\* The first position of cs that holds a character of S, or 0.
IndexOfAny(cs, S) ==
    IF \E i \in 1..Len(cs) : cs[i] \in S
    THEN CHOOSE i \in 1..Len(cs) :
            cs[i] \in S /\ \A j \in 1..(i - 1) : cs[j] \notin S
    ELSE 0

\* The last position of cs that holds a character of S, or 0.
LastIndexOfAny(cs, S) ==
    IF \E i \in 1..Len(cs) : cs[i] \in S
    THEN CHOOSE i \in 1..Len(cs) :
            cs[i] \in S /\ \A j \in (i + 1)..Len(cs) : cs[j] \notin S
    ELSE 0

RECURSIVE SkipSlashes(_)
SkipSlashes(cs) ==
    IF cs # <<>> /\ Head(cs) \in {"/", "\\"} THEN SkipSlashes(Tail(cs)) ELSE cs

IsAlphaChar(ch) == ch \in Range(LowerSeq) \cup Range(UpperSeq)

SpecialSchemes ==
    { <<"h", "t", "t", "p">>, <<"h", "t", "t", "p", "s">>, <<"f", "t", "p">>,
      <<"w", "s">>, <<"w", "s", "s">> }

ForbiddenHostChars == {" ", "<", ">", "[", "]", "^", "|", "%"}

ParseFailure == [ok |-> FALSE, protocol |-> <<>>, hostname |-> <<>>]

\* new URL(input) without a base: the parser drops every tab and line break,
\* reads the scheme up to the first ':', and for a special scheme reads the
\* host after the slashes, without userinfo and port, in lower case.  It
\* throws (ParseFailure) without a scheme, with an empty or malformed host
\* or with a port that is not a number.
ParseUrl(input) ==
    LET cs == SelectSeq(input, LAMBDA ch : ch \notin {"\t", "\n", "\r"})
        colon == IndexOfAny(cs, {":"})
        scheme == ToLowerCase(SubSeq(cs, 1, colon - 1))
        rest == SkipSlashes(SubSeq(cs, colon + 1, Len(cs)))
        stop == IndexOfAny(rest, {"/", "\\", "?", "#"})
        authority == IF stop = 0 THEN rest ELSE SubSeq(rest, 1, stop - 1)
        at == LastIndexOfAny(authority, {"@"})
        hostport == SubSeq(authority, at + 1, Len(authority))
        portAt == IndexOfAny(hostport, {":"})
        host == IF portAt = 0 THEN hostport ELSE SubSeq(hostport, 1, portAt - 1)
        port == IF portAt = 0 THEN <<>> ELSE SubSeq(hostport, portAt + 1, Len(hostport))
    IN  IF colon <= 1 THEN ParseFailure
        ELSE IF ~IsAlphaChar(cs[1]) THEN ParseFailure
        ELSE IF \E i \in 1..Len(scheme) :
                    ~(IsAlnumChar(scheme[i]) \/ scheme[i] \in {"+", "-", "."})
        THEN ParseFailure
        ELSE IF scheme \notin SpecialSchemes
        THEN [ok |-> TRUE, protocol |-> scheme \o <<":">>, hostname |-> <<>>]
        ELSE IF host = <<>> THEN ParseFailure
        ELSE IF \E i \in 1..Len(host) : host[i] \in ForbiddenHostChars THEN ParseFailure
        ELSE IF \E i \in 1..Len(port) : port[i] \notin Range(DigitSeq) THEN ParseFailure
        ELSE [ok |-> TRUE, protocol |-> scheme \o <<":">>, hostname |-> ToLowerCase(host)]

\* ['http:', 'https:'].includes(urlObj.protocol)
ProtocolAllowed(protocol) ==
    protocol \in { <<"h", "t", "t", "p", ":">>, <<"h", "t", "t", "p", "s", ":">> }

\* /^[a-zA-Z0-9.-]+$/.test(hostname)
hostnameRegex(h) ==
    h # <<>> /\ \A i \in 1..Len(h) : IsAlnumChar(h[i]) \/ h[i] \in {".", "-"}

HostnameEdgeInvalidStartOnly(h) == h[1] \in {"-", "."}

\* hostname.startsWith('-') || endsWith('-') || startsWith('.') || endsWith('.')
HostnameEdgeInvalid(h) == h[1] \in {"-", "."} \/ h[Len(h)] \in {"-", "."}

validateUrl(url) ==
    IF Falsy(url) THEN Result(FALSE, "URL is required", Undefined)
    ELSE IF url.kind # "string" THEN Thrown("TypeError: url.trim is not a function")
    ELSE
      LET trimmedUrl == Trim(url.value)
          urlObj == ParseUrl(trimmedUrl)
      IN  IF \E i \in 1..Len(trimmedUrl) : trimmedUrl[i] = " "
          THEN Result(FALSE, "URL cannot contain spaces", Undefined)
          ELSE IF ~urlObj.ok THEN Result(FALSE, "Invalid URL format", Undefined)
          ELSE IF ~ProtocolAllowed(urlObj.protocol)
          THEN Result(FALSE, "URL must use http:// or https:// protocol", Undefined)
          ELSE IF urlObj.hostname = <<>>
          THEN Result(FALSE, "URL must have a valid hostname", Undefined)
          ELSE IF ~hostnameRegex(urlObj.hostname) \/ "." \notin Range(urlObj.hostname)
          THEN Result(FALSE, "URL must have a valid domain name", Undefined)
          ELSE IF HostnameEdgeInvalid(urlObj.hostname)
          THEN Result(FALSE, "URL domain name format is invalid", Undefined)
          ELSE Result(TRUE, "null", StringVal(trimmedUrl))

(***************************************************************************)
(* The values the validators are applied to.                               *)
(***************************************************************************)
MaxInputLen == 11

Repeat(ch, n) == [i \in 1..n |-> ch]

ShortcodeInputs ==
    {Repeat(ch, n) : ch \in {"a", "Z", "7", "_"}, n \in 0..MaxInputLen}
        \cup reservedWords
        \cup { <<"H", "E", "A", "L", "T", "H">>, <<"S", "t", "a", "t", "s">>,
               <<"A", "d", "m", "i", "N">>, <<"a", "b", " ", "d">>,
               <<"a", "b", "c", "d", "\n">>, <<"s", "t", "a", "t", "s", "1">> }

SchemeInputs ==
    { <<"h", "t", "t", "p", ":", "/", "/">>,
      <<"h", "t", "t", "p", "s", ":", "/", "/">>,
      <<"H", "T", "T", "P", ":", "/", "/">>,
      <<"f", "t", "p", ":", "/", "/">>,
      <<"h", "t", "t", "p", ":">>,
      <<>> }

HostInputs ==
    { <<"a", ".", "c", "o">>, <<"A", ".", "C", "o">>, <<"a", "b">>,
      <<"-", "a", ".", "c", "o">>, <<"a", ".", "c", "o", "-">>,
      <<".", "a", ".", "c", "o">>, <<"a", ".", "c", "o", ".">>,
      <<"a", " ", "b", ".", "c", "o">>, <<"a", "\t", "b", ".", "c", "o">>,
      <<"a", "_", "b", ".", "c", "o">>, <<>> }

PathInputs ==
    { <<>>, <<"/", "p">>, <<"/", "p", " ", "q">>, <<"/", "p", "\t", "q">> }

PaddingInputs == { <<>>, <<" ">>, <<"\t">>, <<"\n">> }

UrlInputs ==
    {l \o sc \o h \o pa \o t :
        l \in PaddingInputs, sc \in SchemeInputs, h \in HostInputs,
        pa \in PathInputs, t \in PaddingInputs}

IntegerInputs ==
    {0 - 1, 0, 1, 2, 5, DefaultValidity, MaxValidityMinutes - 1, MaxValidityMinutes,
     MaxValidityMinutes + 1, 12345}

ValidatorInputs ==
    {StringVal(cs) : cs \in ShortcodeInputs \cup UrlInputs}
        \cup {NumberVal(n) : n \in IntegerInputs}
        \cup {FractionVal(n) : n \in {0, 1, MaxValidityMinutes}}
        \cup {Undefined, NullVal, ObjectVal, BooleanVal(TRUE), BooleanVal(FALSE),
               ArrayVal(<<>>),
               ArrayVal(<<StringVal(<<"a">>), StringVal(<<"b">>),
                          StringVal(<<"c">>), StringVal(<<"d">>)>>),
               StringVal(<<"3", "0">>)}

InitValidate ==
    /\ urlStorage = <<>>
    /\ now = 0
    /\ lastCall = NoCall
    /\ appended = [c \in AllCodes |-> 0]
    /\ pc = [p \in Procs |-> "idle"]
    /\ req = [p \in Procs |-> NoRequest]
    /\ status = [p \in Procs |-> 0]
    /\ vcall \in {[fn |-> "none", input |-> x, result |-> Undefined] : x \in ValidatorInputs}
    /\ InitForm
    /\ InitExtras

RegistryIdle ==
    UNCHANGED <<urlStorage, now, lastCall, appended, pc, req, status>> /\ FormIdle /\ ExtrasIdle

ValidateShortcode ==
    /\ vcall' = [fn |-> "validateShortcode", input |-> vcall.input,
                 result |-> validateShortcode(vcall.input)]
    /\ RegistryIdle

ValidateUrl ==
    /\ vcall' = [fn |-> "validateUrl", input |-> vcall.input,
                 result |-> validateUrl(vcall.input)]
    /\ RegistryIdle

ValidateValidity ==
    /\ vcall' = [fn |-> "validateValidity", input |-> vcall.input,
                 result |-> validateValidity(vcall.input)]
    /\ RegistryIdle

NextValidate ==
    \/ ValidateShortcode
    \/ ValidateUrl
    \/ ValidateValidity

SpecValidate == InitValidate /\ [][NextValidate]_vars

(***************************************************************************)
(* The UrlShortener page (batch form).  A form field holds a string; the   *)
(* strings the model types into the url field are spelled out by UrlChars  *)
(* so that the validators read them character by character.  Positions in  *)
(* arrays are counted from 1 (index 0 of the code is position 1).          *)
(***************************************************************************)
MaxBatch == 3

FormUrls == {"", "http://a.co", "http://b.co", "ftp://a.co"}

FormShortcodes == {"", "abcd"}

UrlChars(u) ==
    CASE u = "http://a.co" -> <<"h", "t", "t", "p", ":", "/", "/", "a", ".", "c", "o">>
      [] u = "http://b.co" -> <<"h", "t", "t", "p", ":", "/", "/", "b", ".", "c", "o">>
      [] u = "ftp://a.co" -> <<"f", "t", "p", ":", "/", "/", "a", ".", "c", "o">>
      [] OTHER -> <<>>

FormEntries == [url : FormUrls, validity : {""}, shortcode : FormShortcodes]

\* The forms of at most MaxBatch entries.
Forms == UNION {[1..n -> FormEntries] : n \in 1..MaxBatch}

\* The result object of one entry, from the results of the three checks.
EntryResult(entry, k, urlResult, shortcodeResult, validityResult) ==
    LET byField == [url |-> urlResult, shortcode |-> shortcodeResult,
                    validity |-> validityResult]
    IN  [isValid |-> \A f \in DOMAIN byField : byField[f].isValid,
         errors |-> [f \in {g \in DOMAIN byField : ~byField[g].isValid} |-> byField[f].error],
         validatedData |-> [url |-> entry.url, shortcode |-> entry.shortcode,
                            validity |-> validityResult.value.value],
         index |-> k]

\* utils/validation, one entry: the three checks of the validators, each on
\* its own field; an empty shortcode or validity field counts as not given.
validateEntry(entry, k) ==
    EntryResult(entry, k,
                validateUrl(StringVal(UrlChars(entry.url))),
                IF entry.shortcode = "" THEN Result(TRUE, "null", Undefined)
                ELSE validateShortcode(StringVal(Chars(entry.shortcode))),
                validateValidity(Undefined))

\* validateMultipleEntries(entries): every entry validated on its own, the
\* result carrying the entry's position in the array it was given.
validateMultipleEntries(entries) ==
    [k \in 1..Len(entries) |-> validateEntry(entries[k], k)]

\* urlEntries.filter(entry => entry.url.trim() !== '')
nonEmptyEntries(entries) == SelectSeq(entries, LAMBDA e : Trim(UrlChars(e.url)) # <<>>)

ServerIdle ==
    UNCHANGED <<urlStorage, now, lastCall, appended, pc, req, status, vcall>> /\ ExtrasIdle

\* handleSubmit from the validation results on, up to its await.
SubmitValidated(entries, validationResults) ==
    IF entries = <<>>
    THEN /\ snackbar' = [open |-> TRUE, message |-> "Please enter at least one URL",
                         severity |-> "warning"]
         /\ UNCHANGED <<results, loading, errors, batch>>
    ELSE IF \E k \in 1..Len(entries) : ~validationResults[k].isValid
    THEN /\ errors' = [k \in {j \in 1..Len(entries) : ~validationResults[j].isValid}
                          |-> validationResults[k].errors]
         /\ snackbar' = [open |-> TRUE, message |-> "Please fix the validation errors",
                         severity |-> "error"]
         /\ UNCHANGED <<results, loading, batch>>
    ELSE /\ loading' = TRUE
         /\ errors' = <<>>
         /\ batch' = [validEntries |->
                         [k \in 1..Len(entries) |-> validationResults[k].validatedData],
                      apiResults |-> <<>>]
         /\ UNCHANGED <<results, snackbar>>

\* handleSubmit up to its await: nothing is sent when no entry has a URL or
\* when any entry fails validation.
HandleSubmit ==
    /\ ~loading
    /\ SubmitValidated(nonEmptyEntries(urlEntries),
                       validateMultipleEntries(nonEmptyEntries(urlEntries)))
    /\ UNCHANGED urlEntries
    /\ ServerIdle

ApiSuccess(data, code) ==
    [success |-> TRUE, originalData |-> data, shortcode |-> code, status |-> 201]

ApiFailure(data, st) ==
    [success |-> FALSE, originalData |-> data, shortcode |-> "", status |-> st]

\* createMultipleShortUrls, one entry of the batch: its POST /shorturls is
\* answered by the creation handler, 409 for a custom shortcode that is
\* taken, 201 with the stored entry otherwise.
CreateShortUrl ==
    /\ loading
    /\ Len(batch.apiResults) < Len(batch.validEntries)
    /\ LET data == batch.validEntries[Len(batch.apiResults) + 1]
       IN  IF data.shortcode # "" /\ shortcodeExists(urlStorage, data.shortcode)
           THEN /\ lastCall' = Call("shortcodeExists", data.shortcode, BooleanVal(TRUE))
                /\ batch' = [batch EXCEPT !.apiResults = Append(@, ApiFailure(data, 409))]
                /\ UNCHANGED <<urlStorage, appended>>
           ELSE \E draws \in Draws :
                    LET r == IF data.shortcode # "" THEN StringVal(data.shortcode)
                             ELSE generateShortcode(urlStorage, draws)
                    IN  /\ r.kind = "string"
                        /\ urlStorage' = storeUrl(urlStorage,
                                NewEntry(r.value, data.url, data.validity, now))
                        /\ lastCall' = Call("storeUrl", r.value, Undefined)
                        /\ appended' = [appended EXCEPT ![r.value] = 0]
                        /\ batch' = [batch EXCEPT
                                        !.apiResults = Append(@, ApiSuccess(data, r.value))]
    /\ UNCHANGED <<now, pc, req, status, vcall>>
    /\ UNCHANGED <<urlEntries, results, loading, errors, snackbar>>
    /\ ExtrasIdle

\* handleSubmit after its await: the results are shown and the snackbar
\* reports the failures when there are any, the successes otherwise.
FinishSubmit ==
    /\ loading
    /\ Len(batch.apiResults) = Len(batch.validEntries)
    /\ results' = batch.apiResults
    /\ snackbar' =
          IF \E k \in 1..Len(batch.apiResults) : ~batch.apiResults[k].success
          THEN [open |-> TRUE, message |-> "URL(s) failed to shorten", severity |-> "error"]
          ELSE [open |-> TRUE, message |-> "Successfully shortened URL(s)",
                severity |-> "success"]
    /\ loading' = FALSE
    /\ batch' = NoBatch
    /\ UNCHANGED <<urlEntries, errors>>
    /\ ServerIdle

\* The form as the user has filled it in before pressing the button.
InitBatch ==
    /\ urlStorage = <<>>
    /\ now = 0
    /\ lastCall = NoCall
    /\ appended = [c \in AllCodes |-> 0]
    /\ pc = [p \in Procs |-> "idle"]
    /\ req = [p \in Procs |-> NoRequest]
    /\ status = [p \in Procs |-> 0]
    /\ vcall = NoValidation
    /\ urlEntries \in Forms
    /\ results = <<>>
    /\ loading = FALSE
    /\ errors = <<>>
    /\ snackbar = NoSnackbar
    /\ batch = NoBatch
    /\ InitExtras

NextBatch ==
    \/ HandleSubmit
    \/ CreateShortUrl
    \/ FinishSubmit

SpecBatch == InitBatch /\ [][NextBatch]_vars

(***************************************************************************)
(* Editing the batch form.  The model types into the url field only, one   *)
(* of EditUrls; the answer of the server to a submitted batch is left to   *)
(* SpecBatch.                                                              *)
(***************************************************************************)
MaxUrlEntries == 5

EditUrls == {"", "http://a.co", "ftp://a.co"}

\* An object without the key k (delete object[k]); {} is <<>>.
DeleteKey(object, k) ==
    IF DOMAIN object \ {k} = {} THEN <<>>
    ELSE [j \in DOMAIN object \ {k} |-> object[j]]

\* array.filter((_, i) => i !== index)
RemoveAt(array, index) ==
    [j \in 1..(Len(array) - 1) |-> IF j < index THEN array[j] ELSE array[j + 1]]

AddUrlEntry ==
    /\ Len(urlEntries) < MaxUrlEntries
    /\ urlEntries' = Append(urlEntries, EmptyEntry)
    /\ UNCHANGED <<results, loading, errors, snackbar, batch>>
    /\ ServerIdle

RemoveUrlEntryAlways(index) ==
    /\ index \in 1..Len(urlEntries)
    /\ urlEntries' = RemoveAt(urlEntries, index)
    /\ errors' = DeleteKey(errors, index)
    /\ UNCHANGED <<results, loading, snackbar, batch>>
    /\ ServerIdle

\* removeUrlEntry(index): the entry is filtered out and the key index is
\* deleted from the error map; the other keys stay as they are.
RemoveUrlEntry(index) ==
    /\ index \in 1..Len(urlEntries)
    /\ Len(urlEntries) > 1
    /\ urlEntries' = RemoveAt(urlEntries, index)
    /\ errors' = DeleteKey(errors, index)
    /\ UNCHANGED <<results, loading, snackbar, batch>>
    /\ ServerIdle

\* updateUrlEntry(index, 'url', value)
UpdateUrlEntry(index, value) ==
    /\ index \in 1..Len(urlEntries)
    /\ urlEntries[index].url # value
    /\ urlEntries' = [urlEntries EXCEPT ![index].url = value]
    /\ errors' = IF index \in DOMAIN errors /\ "url" \in DOMAIN errors[index]
                 THEN [errors EXCEPT ![index] = DeleteKey(@, "url")]
                 ELSE errors
    /\ UNCHANGED <<results, loading, snackbar, batch>>
    /\ ServerIdle

ClearForm ==
    /\ ~loading
    /\ urlEntries' = <<EmptyEntry>>
    /\ results' = <<>>
    /\ errors' = <<>>
    /\ UNCHANGED <<loading, snackbar, batch>>
    /\ ServerIdle

NextForm ==
    \/ AddUrlEntry
    \/ \E index \in 1..MaxUrlEntries : RemoveUrlEntry(index)
    \/ \E index \in 1..MaxUrlEntries, value \in EditUrls : UpdateUrlEntry(index, value)
    \/ ClearForm
    \/ HandleSubmit

SpecForm == Init /\ [][NextForm]_vars

(***************************************************************************)
(* server.js: the rate limiter every request passes first.  The store of   *)
(* express-rate-limit keeps, for each client address, the number of        *)
(* requests of the current window and the time the window ends; a request  *)
(* goes on to the routes while that number is at most max and is answered  *)
(* 429 otherwise.  Time is in minutes.                                     *)
(***************************************************************************)
windowMinutes == 15

max == 1000

MaxHits == 1002

MaxLimiterTime == 16

\* The store's count of one more request at time t.
increment(h, t) ==
    IF h.totalHits = 0 \/ t >= h.resetTime
    THEN [totalHits |-> 1, resetTime |-> t + windowMinutes]
    ELSE [h EXCEPT !.totalHits = @ + 1]

RegistryUntouched ==
    /\ UNCHANGED <<urlStorage, lastCall, appended, vcall>>
    /\ HandlersIdle
    /\ FormIdle
    /\ LoopIdle
    /\ StatisticsIdle

\* limiter(req, res, next) for a request from ip.
Limiter(ip) ==
    /\ hits[ip].totalHits < MaxHits
    /\ hits' = [hits EXCEPT ![ip] = increment(@, now)]
    /\ response' = [ip |-> ip,
                    status |-> IF increment(hits[ip], now).totalHits > max
                               THEN 429 ELSE 200]
    /\ UNCHANGED now
    /\ RegistryUntouched

\* The clock advances by a minute.
LimiterTick ==
    /\ now < MaxLimiterTime
    /\ now' = now + 1
    /\ UNCHANGED <<hits, response>>
    /\ RegistryUntouched

NextLimiter ==
    \/ \E ip \in Ips : Limiter(ip)
    \/ LimiterTick

SpecLimiter == Init /\ [][NextLimiter]_vars

(***************************************************************************)
(* Statistics.jsx: the search history of the Statistics page.  A history   *)
(* item is kept by its shortcode, a sequence of characters.  A search is   *)
(* asynchronous: fetchStatistics reads shortcode and searchHistory when it *)
(* is called and uses those values when the answer arrives, so `pending`   *)
(* holds them for every search that awaits its answer.                     *)
(***************************************************************************)
MaxHistory == 10

MaxSearches == 3

HistoryItem(cs) == [shortcode |-> cs]

\* A history of ten searches, the shortcodes "a" to "j".
FullHistory == [i \in 1..MaxHistory |-> HistoryItem(<<LowerSeq[i]>>)]

\* What sessionStorage can hold when the page is mounted.
SavedHistories == {<<>>, SubSeq(FullHistory, 1, MaxHistory - 1), FullHistory}

\* What the user types into the shortcode field.
TypedShortcodes ==
    { <<"a">>, <<" ", "a">>, <<"j">>, <<"k">>, <<"l", " ">>, <<" ">>, <<>> }

updatedHistoryUnfiltered(item, history) ==
    SubSeq(<<item>> \o history, 1,
           IF Len(history) + 1 < MaxHistory THEN Len(history) + 1 ELSE MaxHistory)

\* [newHistoryItem, ...searchHistory.filter(...)].slice(0, 10)
updatedHistory(item, history) ==
    updatedHistoryUnfiltered(item,
        SelectSeq(history, LAMBDA x : x.shortcode # item.shortcode))

PageOnly ==
    /\ UNCHANGED <<urlStorage, now, lastCall, appended, vcall>>
    /\ HandlersIdle
    /\ FormIdle
    /\ LoopIdle
    /\ LimiterIdle

\* fetchStatistics up to its await, for a shortcode field that is not blank.
FetchStatistics(typed) ==
    /\ Trim(typed) # <<>>
    /\ searches < MaxSearches
    /\ searches' = searches + 1
    /\ pending' = pending \cup {[shortcode |-> typed, searchHistory |-> searchHistory]}
    /\ UNCHANGED <<searchHistory, statistics>>
    /\ PageOnly

\* The answer of a pending search is a success.
FetchSucceeded(f) ==
    /\ f \in pending
    /\ statistics' = ObjectVal
    /\ searchHistory' = updatedHistory(HistoryItem(Trim(f.shortcode)), f.searchHistory)
    /\ pending' = pending \ {f}
    /\ UNCHANGED searches
    /\ PageOnly

\* The answer of a pending search is a failure.
FetchFailed(f) ==
    /\ f \in pending
    /\ statistics' = NullVal
    /\ pending' = pending \ {f}
    /\ UNCHANGED <<searchHistory, searches>>
    /\ PageOnly

ClearHistory ==
    /\ searchHistory' = <<>>
    /\ UNCHANGED <<statistics, pending, searches>>
    /\ PageOnly

\* The page is mounted and has read the saved history.
InitStatisticsPage ==
    /\ urlStorage = <<>>
    /\ now = 0
    /\ lastCall = NoCall
    /\ appended = [c \in AllCodes |-> 0]
    /\ pc = [p \in Procs |-> "idle"]
    /\ req = [p \in Procs |-> NoRequest]
    /\ status = [p \in Procs |-> 0]
    /\ vcall = NoValidation
    /\ InitForm
    /\ gen = NoGeneration
    /\ InitLimiter
    /\ searchHistory \in SavedHistories
    /\ statistics = NullVal
    /\ pending = {}
    /\ searches = 0

NextStatistics ==
    \/ \E typed \in TypedShortcodes : FetchStatistics(typed)
    \/ \E f \in pending : FetchSucceeded(f)
    \/ \E f \in pending : FetchFailed(f)
    \/ ClearHistory

SpecStatistics == InitStatisticsPage /\ [][NextStatistics]_vars

(***************************************************************************)
(* Properties of the registry.                                             *)
(***************************************************************************)
Entry(m, c) == getUrl(m, c).value

Present(m, c) == getUrl(m, c).kind = "entry"

\* C1: storing an entry whose shortcode is already in the registry fails
\* with a conflict and leaves the stored entry as it was.
InsertExistingIsConflict ==
    [][\A c \in Codes, u \in Urls, v \in Validities :
          (StoreUrlOf(c, u, v) /\ Present(urlStorage, c))
              => /\ lastCall'.ret.kind = "conflict"
                 /\ getUrl(urlStorage', c) = getUrl(urlStorage, c)]_vars

\* C2: a creation that reaches its store step after another request has
\* stored the same shortcode is not accepted, and the stored entry stays.
RacingCreateAcceptsOne ==
    [][\A p \in Procs :
          (CreateStore(p) /\ Present(urlStorage, req[p].shortcode))
              => /\ status'[p] # 201
                 /\ getUrl(urlStorage', req[p].shortcode)
                        = getUrl(urlStorage, req[p].shortcode)]_vars

\* C3: getUrl never returns an entry whose expiresAt is earlier than the
\* clock reading at the time of the call.
LookupNeverReturnsExpired ==
    [][\A c \in ReadCodes :
          (GetUrlOf(c) /\ lastCall'.ret.kind = "entry")
              => ~(lastCall'.ret.value.expiresAt < now)]_vars

\* C4: for an entry in the registry, the length of its clicks equals the
\* number of recordClick calls made on its shortcode since it was stored.
NoClickLost ==
    \A c \in AllCodes :
        Present(urlStorage, c) => Len(Entry(urlStorage, c).clicks) = appended[c]

NoClickLostWitness ==
    \E c \in Codes, d \in Codes :
        /\ c # d
        /\ Present(urlStorage, c) /\ appended[c] >= 2
        /\ Present(urlStorage, d)
        /\ Len(Entry(urlStorage, c).clicks) >= 2

\* C5: while a shortcode stays in the registry its originalUrl, createdAt
\* and expiresAt do not change, and its clicks change only by one append.
EntryImmutable ==
    [][\A c \in AllCodes :
          (Present(urlStorage, c) /\ Present(urlStorage', c))
              => /\ Entry(urlStorage', c).originalUrl = Entry(urlStorage, c).originalUrl
                 /\ Entry(urlStorage', c).createdAt = Entry(urlStorage, c).createdAt
                 /\ Entry(urlStorage', c).expiresAt = Entry(urlStorage, c).expiresAt
                 /\ \/ Entry(urlStorage', c).clicks = Entry(urlStorage, c).clicks
                    \/ \E k \in ClickData :
                          Entry(urlStorage', c).clicks
                              = Append(Entry(urlStorage, c).clicks, k)]_vars

\* C6: while a shortcode stays in the registry the length of its clicks
\* never decreases.
ClicksLengthMonotone ==
    [][\A c \in AllCodes :
          (Present(urlStorage, c) /\ Present(urlStorage', c))
              => Len(Entry(urlStorage', c).clicks) >= Len(Entry(urlStorage, c).clicks)]_vars

\* C7: a lookup of a shortcode returns the same originalUrl before and
\* after every step that does not remove the shortcode.
RoundTrip ==
    [][\A c \in AllCodes :
          LET before == getUrl(urlStorage, c)
              after == getUrl(urlStorage', c)
          IN  (before.kind = "entry" /\ after.kind = "entry")
                  => after.value.originalUrl = before.value.originalUrl]_vars

\* C8: the registry holds at most one entry per shortcode, and each entry
\* is stored under its own shortcode.
UniqueShortcodes ==
    /\ \A i, j \in 1..Len(urlStorage) :
          urlStorage[i].key = urlStorage[j].key => i = j
    /\ \A i \in 1..Len(urlStorage) :
          urlStorage[i].value.shortcode = urlStorage[i].key

\* A shortcode was stored a second time: the entry in the older position of
\* the Map is the younger one.
UniqueShortcodesWitness ==
    /\ Len(urlStorage) = 2
    /\ urlStorage[1].value.createdAt > urlStorage[2].value.createdAt

\* C9: the sweep at time now leaves no entry whose expiresAt is earlier than
\* now, and returns the number of entries it removed.
SweepRemovesAllExpired ==
    [][CleanupExpiredUrls
          => /\ \A i \in 1..Len(urlStorage') : ~(urlStorage'[i].value.expiresAt < now)
             /\ lastCall'.ret = NumberVal(Cardinality(MapKeys(urlStorage)
                                                         \ MapKeys(urlStorage')))
             /\ lastCall'.ret = NumberVal(Len(urlStorage) - Len(urlStorage'))]_vars

SweepRemovesAllExpiredWitness ==
    /\ lastCall.op = "cleanupExpiredUrls"
    /\ lastCall.ret.value = 1
    /\ Len(urlStorage) = 1

\* C10: recordClick on a shortcode that is not stored returns normally and
\* leaves the registry as it was.
ClickOnMissingIsNoOp ==
    [][\A c \in ReadCodes :
          (/\ ~Present(urlStorage, c)
           /\ lastCall'.op = "recordClick"
           /\ \E k \in ClickData : RecordClickOf(c, k))
              => /\ urlStorage' = urlStorage
                 /\ lastCall'.ret = Undefined]_vars

ClickOnMissingIsNoOpWitness ==
    /\ lastCall.op = "recordClick"
    /\ ~Present(urlStorage, lastCall.code)
    /\ Len(urlStorage) >= 1
    /\ \E i \in 1..Len(urlStorage) : urlStorage[i].value.clicks # <<>>

\* C11: a recordClick on a stored shortcode puts the new click event at the
\* end of the entry's clicks; the clicks recorded before stay, in order, as
\* the prefix.
ClicksAppendOnly ==
    [][\A c \in Codes :
          (/\ Present(urlStorage, c)
           /\ lastCall'.op = "recordClick"
           /\ lastCall'.code = c)
              => \A k \in ClickData :
                    RecordClickOf(c, k)
                        => /\ Present(urlStorage', c)
                           /\ Entry(urlStorage', c).clicks
                                  = Append(Entry(urlStorage, c).clicks, k)]_vars

ClicksAppendOnlyWitness ==
    /\ lastCall.op = "recordClick"
    /\ Present(urlStorage, lastCall.code)
    /\ Entry(urlStorage, lastCall.code).clicks = <<"k1", "k2">>

\* C12: every shortcode stored in the registry has 4 to 10 characters, all
\* of them in a-z, A-Z, 0-9.
StoredShortcodesAlphanumeric ==
    \A i \in 1..Len(urlStorage) :
        LET cs == Chars(urlStorage[i].key)
        IN  /\ Len(cs) >= MinShortcodeLength
            /\ Len(cs) <= MaxShortcodeLength
            /\ \A j \in 1..Len(cs) : IsAlnumChar(cs[j])

\* C13: the code generateShortcode returns has 6 characters and is not a
\* key of the registry when it returns.
GeneratedIsFresh ==
    [][\A p \in Procs :
          AutoGenerate(p)
              => /\ Len(Chars(lastCall'.ret.value)) = ShortcodeLength
                 /\ ~shortcodeExists(urlStorage', lastCall'.ret.value)]_vars

\* generateShortcode returned the one code left free by two stored ones.
GeneratedIsFreshWitness ==
    /\ lastCall.op = "generateShortcode"
    /\ Len(urlStorage) = 2
    /\ ~shortcodeExists(urlStorage, lastCall.code)

\* Every shortcode nanoid(6) can return is a stored key.
AllCandidatesTaken == \A c \in NanoidCodes : shortcodeExists(urlStorage, c)

\* C23: generateShortcode ends, by returning or by failing, also when
\* every candidate shortcode is already in the registry.
GenerateLoopEnds == (gen.pc = "loop" /\ AllCandidatesTaken) ~> (gen.pc # "loop")

\* C24: two creations without a shortcode that have both been answered 201
\* have their entries under distinct shortcodes, so neither has overwritten
\* the other, also when both drew the same candidate before either stored.
RacingAutoCreationsDistinct ==
    \A p, q \in Procs :
        (p # q /\ pc[p] = "done" /\ pc[q] = "done" /\ status[p] = 201 /\ status[q] = 201)
            => /\ req[p].shortcode # req[q].shortcode
               /\ Present(urlStorage, req[p].shortcode)
               /\ Entry(urlStorage, req[p].shortcode).originalUrl = req[p].url

\* C25: the set of stored shortcodes shrinks only in a cleanupExpiredUrls
\* step; no other call of urlService deletes a key.
OnlySweepRemoves ==
    [][(\E c \in AllCodes : Present(urlStorage, c) /\ ~Present(urlStorage', c))
          => CleanupExpiredUrls]_vars

OnlySweepRemovesWitness ==
    /\ lastCall.op = "cleanupExpiredUrls"
    /\ lastCall.ret.value = 2
    /\ urlStorage = <<>>

\* C26: a creation whose custom shortcode is held by an entry that has
\* passed its expiresAt and has not been swept finds the shortcode taken
\* (shortcodeExists is true) and is answered 409, the registry unchanged.
ExpiredUnsweptStillTaken ==
    [][\A p \in Procs :
          (/\ pc[p] = "idle"
           /\ pc'[p] # "idle"
           /\ CreateCheck(p)
           /\ Present(urlStorage, req'[p].shortcode)
           /\ Entry(urlStorage, req'[p].shortcode).expiresAt < now)
             => /\ lastCall' = Call("shortcodeExists", req'[p].shortcode, BooleanVal(TRUE))
                /\ status'[p] = 409
                /\ pc'[p] = "done"
                /\ urlStorage' = urlStorage]_vars

ExpiredUnsweptStillTakenWitness ==
    \E p \in Procs :
        /\ pc[p] = "done"
        /\ status[p] = 409
        /\ lastCall = Call("shortcodeExists", req[p].shortcode, BooleanVal(TRUE))
        /\ Present(urlStorage, req[p].shortcode)
        /\ Entry(urlStorage, req[p].shortcode).expiresAt < now
        /\ Entry(urlStorage, req[p].shortcode).createdAt = 0
        /\ Entry(urlStorage, req[p].shortcode).expiresAt = 1

\* C27: a sweep keeps every entry whose expiresAt is the sweep time or
\* later, with all its fields as they were.
SweepKeepsLive ==
    [][(lastCall'.op = "cleanupExpiredUrls" /\ CleanupExpiredUrls)
          => \A c \in AllCodes :
                (Present(urlStorage, c) /\ Entry(urlStorage, c).expiresAt >= now)
                    => /\ Present(urlStorage', c)
                       /\ Entry(urlStorage', c) = Entry(urlStorage, c)]_vars

SweepKeepsLiveWitness ==
    /\ lastCall.op = "cleanupExpiredUrls"
    /\ lastCall.ret.value >= 1
    /\ \E c \in AllCodes : Present(urlStorage, c) /\ Entry(urlStorage, c).expiresAt = now

(***************************************************************************)
(* Properties of the validators.                                           *)
(***************************************************************************)
Absent(x) == x.kind \in {"undefined", "null"}

\* C14: validateShortcode accepts an absent shortcode (null or undefined).
AbsentShortcodeIsValid ==
    (vcall.fn = "validateShortcode" /\ Absent(vcall.input))
        => vcall.result.kind = "result" /\ vcall.result.isValid

EqualIgnoringCase(a, b) ==
    Len(a) = Len(b) /\ \A i \in 1..Len(a) : ToLowerChar(a[i]) = ToLowerChar(b[i])

ShortcodeAcceptable(cs) ==
    /\ Len(cs) >= 4
    /\ Len(cs) <= 10
    /\ \A i \in 1..Len(cs) : IsAlnumChar(cs[i])
    /\ ~\E w \in reservedWords : EqualIgnoringCase(cs, w)

\* C15: validateShortcode accepts a string exactly when it has 4 to 10
\* characters, all alphanumeric, and is not a reserved word in any case.
ShortcodeAcceptedIff ==
    (vcall.fn = "validateShortcode" /\ vcall.input.kind = "string")
        => /\ vcall.result.kind = "result"
           /\ vcall.result.isValid <=> ShortcodeAcceptable(vcall.input.value)

\* A reserved word in upper case has been rejected.
ShortcodeAcceptedIffWitness ==
    /\ vcall.fn = "validateShortcode"
    /\ vcall.input = StringVal(<<"H", "E", "A", "L", "T", "H">>)
    /\ vcall.result.kind = "result"
    /\ ~vcall.result.isValid

\* C16: validateValidity gives 30 for an absent validity; a present one is
\* accepted, and returned as it is, exactly when it is an integer in
\* [1, 43200].
ValidityAcceptedIff ==
    vcall.fn = "validateValidity"
        => /\ vcall.result.kind = "result"
           /\ Absent(vcall.input)
                 => vcall.result.isValid /\ vcall.result.value = NumberVal(30)
           /\ ~Absent(vcall.input)
                 => /\ vcall.result.isValid
                        <=> /\ vcall.input.kind = "number"
                            /\ vcall.input.value >= 1
                            /\ vcall.input.value <= 43200
                    /\ vcall.result.isValid => vcall.result.value = vcall.input

ValidityAcceptedIffWitness ==
    /\ vcall.fn = "validateValidity"
    /\ vcall.input = NumberVal(43200)
    /\ vcall.result.kind = "result"
    /\ vcall.result.isValid
    /\ vcall.result.value = NumberVal(43200)

\* C17: a URL validateUrl accepts has scheme http or https and a hostname
\* that is not empty, has only characters of [a-zA-Z0-9.-], has a '.', and
\* has no '-' or '.' at either end; the normalized URL is the input without
\* its leading and trailing whitespace.
UrlAcceptedOnlyIf ==
    (vcall.fn = "validateUrl" /\ vcall.result.kind = "result" /\ vcall.result.isValid)
        => /\ vcall.input.kind = "string"
           /\ LET u == ParseUrl(Trim(vcall.input.value))
                   h == u.hostname
               IN  /\ u.ok
                   /\ u.protocol \in { <<"h", "t", "t", "p", ":">>,
                                        <<"h", "t", "t", "p", "s", ":">> }
                   /\ h # <<>>
                   /\ \A i \in 1..Len(h) : IsAlnumChar(h[i]) \/ h[i] \in {".", "-"}
                   /\ \E i \in 1..Len(h) : h[i] = "."
                   /\ h[1] \notin {"-", "."}
                   /\ h[Len(h)] \notin {"-", "."}
           /\ vcall.result.value.kind = "string"
           /\ LET n == vcall.result.value.value
                   x == vcall.input.value
               IN  /\ \E a, b \in 0..Len(x) :
                         /\ a + Len(n) + b = Len(x)
                         /\ n = SubSeq(x, a + 1, a + Len(n))
                         /\ \A i \in 1..a : IsWhitespace(x[i])
                         /\ \A i \in (a + Len(n) + 1)..Len(x) : IsWhitespace(x[i])
                   /\ ~IsWhitespace(n[1])
                   /\ ~IsWhitespace(n[Len(n)])

\* An upper-case URL padded with whitespace has been accepted.
UrlAcceptedOnlyIfWitness ==
    /\ vcall.fn = "validateUrl"
    /\ vcall.input = StringVal(<<" ", "H", "T", "T", "P", ":", "/", "/",
                                 "A", ".", "C", "o", "/", "p", "\n">>)
    /\ vcall.result.kind = "result"
    /\ vcall.result.isValid
    /\ vcall.result.value = StringVal(<<"H", "T", "T", "P", ":", "/", "/",
                                        "A", ".", "C", "o", "/", "p">>)

\* C18: validateUrl rejects every string that, once trimmed, still holds a
\* whitespace character (space, tab or line break).
UrlWithWhitespaceRejected ==
    (/\ vcall.fn = "validateUrl"
     /\ vcall.input.kind = "string"
     /\ \E i \in 1..Len(Trim(vcall.input.value)) :
            IsWhitespace(Trim(vcall.input.value)[i]))
        => vcall.result.kind = "result" /\ ~vcall.result.isValid

\* C19: whatever the input, a validator returns a result object; none of
\* them throws.
ValidatorsNeverThrow ==
    vcall.fn # "none" => vcall.result.kind = "result"

(***************************************************************************)
(* Properties of the batch form.                                           *)
(***************************************************************************)
\* The registry holds an entry made for this form entry: under its custom
\* shortcode, or under any shortcode with its URL when none was asked for.
CreatedOrConflicting(e) ==
    IF e.shortcode # "" THEN MapHas(urlStorage, e.shortcode)
    ELSE \E i \in 1..Len(urlStorage) : urlStorage[i].value.originalUrl = e.url

\* The entry at position k of the batch passes validation.
Passes(k) == validateEntry(nonEmptyEntries(urlEntries)[k], k).isValid

\* C20: once a submission of the batch has ended, every entry that fails
\* validation has an error at its own position and at no other, and every
\* entry that passes validation has been created (or has met a conflict on
\* its own shortcode), whatever the other entries of the batch are.
BatchEntriesIndependent ==
    (~loading /\ snackbar.open /\ snackbar.severity # "warning")
        => \A k \in 1..Len(nonEmptyEntries(urlEntries)) :
              /\ (k \in DOMAIN errors) <=> ~Passes(k)
              /\ Passes(k) => CreatedOrConflicting(nonEmptyEntries(urlEntries)[k])

\* C21: the form holds between 1 and 5 entries whatever is added, removed
\* or cleared, and a batch handed to the server has at most 5 entries.
FormSizeBounded ==
    /\ Len(urlEntries) >= 1
    /\ Len(urlEntries) <= 5
    /\ Len(batch.validEntries) <= 5

FormSizeBoundedWitness ==
    /\ Len(urlEntries) = 5
    /\ loading
    /\ Len(batch.validEntries) = 5

\* The errors shown at position j of the form.
ErrorsAt(errorMap, j) == IF j \in DOMAIN errorMap THEN errorMap[j] ELSE <<>>

\* C29: removeUrlEntry(i) leaves every remaining entry with the errors it
\* had: positions below i keep theirs, and the entry that moves from
\* position j + 1 to position j takes its errors along.
ErrorsFollowEntries ==
    [][\A i \in 1..MaxUrlEntries :
          (Len(urlEntries') = Len(urlEntries) - 1 /\ RemoveUrlEntry(i))
              => \A j \in 1..Len(urlEntries') :
                    ErrorsAt(errors', j) = ErrorsAt(errors, IF j < i THEN j ELSE j + 1)]_vars

(***************************************************************************)
(* Properties of the rate limiter.                                         *)
(***************************************************************************)
\* C22: a request from an address that has had 100 requests counted in its
\* running 15-minute window is rejected.
RateLimitHundred ==
    [][\A ip \in Ips :
          (/\ hits[ip].totalHits >= 100
           /\ now < hits[ip].resetTime
           /\ Limiter(ip))
             => response'.status = 429]_vars

(***************************************************************************)
(* Properties of the search history.                                       *)
(***************************************************************************)
\* C30: the search history never holds more than 10 items nor two items
\* with the same shortcode, and a successful search puts the shortcode
\* searched for at the head of the history.
HistoryWellFormed ==
    /\ [](/\ Len(searchHistory) <= 10
          /\ \A i, j \in 1..Len(searchHistory) :
                i # j => searchHistory[i].shortcode # searchHistory[j].shortcode)
    /\ [][\A f \in pending :
             FetchSucceeded(f)
                => /\ searchHistory' # <<>>
                   /\ searchHistory'[1].shortcode = Trim(f.shortcode)]_vars

HistoryWellFormedWitness ==
    /\ Len(searchHistory) = 10
    /\ searchHistory[1].shortcode = <<"l">>
    /\ searchHistory[2].shortcode = <<"a">>
    /\ searchHistory[10].shortcode = <<"h">>
    /\ statistics = ObjectVal

(***************************************************************************)
(* Properties that join the registry and the validators.                   *)
(***************************************************************************)
\* C28: no shortcode returned by generateShortcode is, ignoring case, one
\* of the reserved words validateShortcode refuses for custom shortcodes.
GeneratedNeverReserved ==
    lastCall.op = "generateShortcode" => ~IsReserved(Chars(lastCall.code))

====
